---- MODULE Spec2Model ----
(***************************************************************************)
(* Model of the OMDb fetcher: the metadata client (src/utils/api.ts), the  *)
(* placeholder template engine (src/utils/template.ts) and the host        *)
(* command that joins them (src/commands/fetch-movie-data.ts).             *)
(*                                                                         *)
(* JavaScript strings are sequences of one-character strings, so that      *)
(* String(value), template literals and the placeholder scan are computed  *)
(* character by character.  Every other JavaScript value is a record       *)
(* tagged with its typeof class.                                           *)
(***************************************************************************)
EXTENDS Integers, Sequences, FiniteSets, TLC

VARIABLES
    pc,          \* client: "idle" | "awaiting" | "done"
    op,          \* client: the public operation being run
    args,        \* client: [apiKey, term, options] of the call
    url,         \* client: the URL handed to requestUrl
    requests,    \* client: number of requestUrl calls made by the current call
    transport,   \* client: what requestUrl did (thrown value or response)
    outcome,     \* client: how the call ended (returned body or raised error)
    text,        \* template: the content given to applyTemplate
    data,        \* template: the data record given to applyTemplate
    first,       \* template: result of applyTemplate(text, data)
    second,      \* template: result of applyTemplate(first.content, data)
    editor,      \* command: the editor's current content
    inv,         \* command: the invocations of fetchMovieData, in order
    edits        \* command: number of edits the user has made

clientVars == <<pc, op, args, url, requests, transport, outcome>>
templateVars == <<text, data, first, second>>
commandVars == <<editor, inv, edits>>
vars == <<pc, op, args, url, requests, transport, outcome,
          text, data, first, second, editor, inv, edits>>

-----------------------------------------------------------------------------
(* JavaScript values *)

Undefined == [t |-> "undefined"]
Null == [t |-> "null"]
Str(s) == [t |-> "string", v |-> s]
Num(n) == [t |-> "number", v |-> n]
Bool(b) == [t |-> "boolean", v |-> b]
Arr(a) == [t |-> "array", v |-> a]
Obj(f) == [t |-> "object", v |-> f]
Fun == [t |-> "function"]
\* An instance of Error (or a subclass): its message is a string.
ErrorObject(m) == [t |-> "Error", v |-> m]

\* typeof: arrays, null, plain objects and Error instances are all "object".
typeof(x) ==
    IF x.t \in {"null", "array", "object", "Error"} THEN "object" ELSE x.t

\* The properties every plain object inherits from Object.prototype.
ObjectPrototypeKeys ==
    { <<"t", "o", "S", "t", "r", "i", "n", "g">>,
      <<"c", "o", "n", "s", "t", "r", "u", "c", "t", "o", "r">>,
      <<"v", "a", "l", "u", "e", "O", "f">> }

\* obj[key] for a value that passed the typeof/null test.
Get(x, key) ==
    IF x.t = "object" /\ key \in DOMAIN x.v THEN x.v[key]
    ELSE IF x.t = "object" /\ key \in ObjectPrototypeKeys THEN Fun
    ELSE Undefined

\* key in obj, for a plain object.
HasProperty(x, key) ==
    x.t = "object" /\ (key \in DOMAIN x.v \/ key \in ObjectPrototypeKeys)

Digit(d) == CASE d = 0 -> "0" [] d = 1 -> "1" [] d = 2 -> "2" [] d = 3 -> "3"
              [] d = 4 -> "4" [] d = 5 -> "5" [] d = 6 -> "6" [] d = 7 -> "7"
              [] d = 8 -> "8" [] d = 9 -> "9"

RECURSIVE NatToString(_)
NatToString(n) ==
    IF n < 10 THEN <<Digit(n)>> ELSE NatToString(n \div 10) \o <<Digit(n % 10)>>

\* String(n) for an integer n.
NumberToString(n) == IF n < 0 THEN <<"-">> \o NatToString(-n) ELSE NatToString(n)

\* String(value) for the primitive values the code can apply it to.
String(x) ==
    CASE x.t = "number" -> NumberToString(x.v)
      [] x.t = "undefined" -> <<"u", "n", "d", "e", "f", "i", "n", "e", "d">>
      [] x.t = "null" -> <<"n", "u", "l", "l">>
      [] x.t = "boolean" -> (IF x.v THEN <<"t", "r", "u", "e">>
                                     ELSE <<"f", "a", "l", "s", "e">>)
      [] OTHER -> x.v

-----------------------------------------------------------------------------
(* String constants of the source *)

sTrue == <<"T", "r", "u", "e">>
sFalse == <<"F", "a", "l", "s", "e">>
kResponse == <<"R", "e", "s", "p", "o", "n", "s", "e">>
kError == <<"E", "r", "r", "o", "r">>
kImdbID == <<"i", "m", "d", "b", "I", "D">>
kSearch == <<"S", "e", "a", "r", "c", "h">>
kTitle == <<"T", "i", "t", "l", "e">>
kYear == <<"Y", "e", "a", "r">>
kDirector == <<"D", "i", "r", "e", "c", "t", "o", "r">>
kApikey == <<"a", "p", "i", "k", "e", "y">>
kR == <<"r">>
kT == <<"t">>
kY == <<"y">>
kI == <<"i">>
kS == <<"s">>
kType == <<"t", "y", "p", "e">>
kPlot == <<"p", "l", "o", "t">>
kPage == <<"p", "a", "g", "e">>
sJson == <<"j", "s", "o", "n">>
sUndefined == <<"u", "n", "d", "e", "f", "i", "n", "e", "d">>

OMDB_BASE_URL ==
    <<"h", "t", "t", "p", "s", ":", "/", "/", "w", "w", "w", ".",
      "o", "m", "d", "b", "a", "p", "i", ".", "c", "o", "m", "/">>

NetworkErrorMessage ==
    <<"N", "e", "t", "w", "o", "r", "k", " ", "e", "r", "r", "o", "r">>
HttpMessagePrefix ==
    <<"O", "M", "D", "b", " ", "r", "e", "t", "u", "r", "n", "e", "d", " ",
      "H", "T", "T", "P", " ">>
NotJsonMessage ==
    <<"O", "M", "D", "b", " ", "r", "e", "s", "p", "o", "n", "s", "e", " ",
      "w", "a", "s", " ", "n", "o", "t", " ", "v", "a", "l", "i", "d", " ",
      "J", "S", "O", "N">>
UnexpectedShapeMessage ==
    <<"U", "n", "e", "x", "p", "e", "c", "t", "e", "d", " ", "r", "e", "s",
      "p", "o", "n", "s", "e", " ", "s", "h", "a", "p", "e", " ", "f", "r",
      "o", "m", " ", "O", "M", "D", "b">>

-----------------------------------------------------------------------------
(* src/utils/api.ts *)

OmdbErrorKind == {"network", "http", "api", "parse"}

\* options?.field of the constructor's optional third argument.
OptionField(options, field) ==
    IF field \in DOMAIN options THEN options[field] ELSE Undefined

NoOptions == [x \in {} |-> Undefined]

\* OmdbError with the optional fields defaulted instead of left undefined:
\* the constructor as it would be with `options?.httpStatus ?? 0`.
OmdbErrorDefaults(kind, message, options) ==
    [ name |-> "OmdbError",
      kind |-> kind,
      message |-> message,
      httpStatus |-> IF "httpStatus" \in DOMAIN options
                     THEN options["httpStatus"] ELSE Num(0),
      apiMessage |-> IF "apiMessage" \in DOMAIN options
                     THEN options["apiMessage"] ELSE Str(<< >>) ]

\* new OmdbError(kind, message, options)
OmdbError(kind, message, options) ==
    [ name |-> "OmdbError",
      kind |-> kind,
      message |-> message,
      httpStatus |-> OptionField(options, "httpStatus"),
      apiMessage |-> OptionField(options, "apiMessage") ]

Raise(e) == [tag |-> "raise", error |-> e]
Return(b) == [tag |-> "return", body |-> b]

RECURSIVE SearchParamsReplace(_, _, _, _)
\* URLSearchParams.set on a list that holds the key: the first pair takes the
\* value, the later pairs of that key are dropped.
SearchParamsReplace(q, key, value, seen) ==
    IF q = << >> THEN << >>
    ELSE IF Head(q)[1] = key
         THEN (IF seen THEN << >> ELSE << <<key, value>> >>)
              \o SearchParamsReplace(Tail(q), key, value, TRUE)
         ELSE <<Head(q)>> \o SearchParamsReplace(Tail(q), key, value, seen)

\* url.searchParams.set(key, value)
SearchParamsSet(q, key, value) ==
    IF \E n \in 1..Len(q) : q[n][1] = key
    THEN SearchParamsReplace(q, key, value, FALSE)
    ELSE Append(q, <<key, value>>)

RECURSIVE SetAllParams(_, _)
\* The loop of buildUrl without its `value !== undefined` test.
SetAllParams(q, params) ==
    IF params = << >> THEN q
    ELSE SetAllParams(SearchParamsSet(q, Head(params)[1], String(Head(params)[2])),
                      Tail(params))

RECURSIVE SetDefinedParams(_, _)
\* The loop over Object.keys(params): a pair is set unless its value is undefined.
SetDefinedParams(q, params) ==
    IF params = << >> THEN q
    ELSE LET key == Head(params)[1]
             value == Head(params)[2]
         IN SetDefinedParams(
                IF value # Undefined THEN SearchParamsSet(q, key, String(value)) ELSE q,
                Tail(params))

\* buildUrl(apiKey, params); params lists the object literal's pairs in order.
buildUrl(apiKey, params) ==
    [ base |-> OMDB_BASE_URL,
      searchParams |->
          SetDefinedParams(
              SearchParamsSet(SearchParamsSet(<< >>, kApikey, apiKey), kR, sJson),
              params) ]

\* The catch block without the use of err.message.
NetworkMessageFixed(err) == NetworkErrorMessage

\* The catch block of executeRequest: the message of the network error.
NetworkMessage(err) == IF err.t = "Error" THEN err.v ELSE NetworkErrorMessage

\* executeRequest with the body test moved before the status test.
executeRequestBodyFirst(tr) ==
    IF tr.kind = "throw"
    THEN Raise(OmdbError("network", NetworkMessage(tr.err), NoOptions))
    ELSE IF tr.json = Null \/ tr.json = Undefined
    THEN Raise(OmdbError("parse", NotJsonMessage, NoOptions))
    ELSE IF tr.status >= 400
    THEN Raise(OmdbError("http", HttpMessagePrefix \o NumberToString(tr.status),
                         [httpStatus |-> Num(tr.status)]))
    ELSE Return(tr.json)

\* executeRequest, from the point where requestUrl settles.
executeRequest(tr) ==
    IF tr.kind = "throw"
    THEN Raise(OmdbError("network", NetworkMessage(tr.err), NoOptions))
    ELSE IF tr.status >= 400
    THEN Raise(OmdbError("http", HttpMessagePrefix \o NumberToString(tr.status),
                         [httpStatus |-> Num(tr.status)]))
    ELSE IF tr.json = Null \/ tr.json = Undefined
    THEN Raise(OmdbError("parse", NotJsonMessage, NoOptions))
    ELSE Return(tr.json)

IsObjectLike(body) == typeof(body) = "object" /\ body # Null

\* isApiError with a truthiness test of Error in place of the typeof test.
isApiErrorTruthy(body) ==
    IF ~IsObjectLike(body) THEN FALSE
    ELSE /\ Get(body, kResponse) = Str(sFalse)
         /\ typeof(Get(body, kError)) = "string"
         /\ Get(body, kError).v # << >>

isApiError(body) ==
    IF ~IsObjectLike(body) THEN FALSE
    ELSE Get(body, kResponse) = Str(sFalse) /\ typeof(Get(body, kError)) = "string"

isDetailResult(body) ==
    IF ~IsObjectLike(body) THEN FALSE
    ELSE Get(body, kResponse) = Str(sTrue) /\ typeof(Get(body, kImdbID)) = "string"

\* isSearchResult with a presence test of Search in place of Array.isArray.
isSearchResultLoose(body) ==
    IF ~IsObjectLike(body) THEN FALSE
    ELSE Get(body, kResponse) = Str(sTrue) /\ Get(body, kSearch) # Undefined

isSearchResult(body) ==
    IF ~IsObjectLike(body) THEN FALSE
    ELSE Get(body, kResponse) = Str(sTrue) /\ Get(body, kSearch).t = "array"

\* The detail classification without its final throw.
ClassifyDetailLenient(r) ==
    IF r.tag = "raise" THEN r
    ELSE IF isApiError(r.body)
    THEN Raise(OmdbError("api", Get(r.body, kError).v,
                         [apiMessage |-> Get(r.body, kError)]))
    ELSE Return(r.body)

\* The statements after `await executeRequest(url)` in a detail operation.
ClassifyDetail(r) ==
    IF r.tag = "raise" THEN r
    ELSE IF isApiError(r.body)
    THEN Raise(OmdbError("api", Get(r.body, kError).v,
                         [apiMessage |-> Get(r.body, kError)]))
    ELSE IF isDetailResult(r.body) THEN Return(r.body)
    ELSE Raise(OmdbError("parse", UnexpectedShapeMessage, NoOptions))

\* The statements after `await executeRequest(url)` in searchByTitle.
ClassifySearch(r) ==
    IF r.tag = "raise" THEN r
    ELSE IF isApiError(r.body)
    THEN Raise(OmdbError("api", Get(r.body, kError).v,
                         [apiMessage |-> Get(r.body, kError)]))
    ELSE IF isSearchResult(r.body) THEN Return(r.body)
    ELSE Raise(OmdbError("parse", UnexpectedShapeMessage, NoOptions))

\* const {year, type, plot} = options
Destructure(options, field) ==
    IF field \in DOMAIN options THEN options[field] ELSE Undefined

fetchByTitleUrl(apiKey, title, options) ==
    buildUrl(apiKey, << <<kT, Str(title)>>,
                        <<kY, Destructure(options, "year")>>,
                        <<kType, Destructure(options, "type")>>,
                        <<kPlot, Destructure(options, "plot")>> >>)

fetchByIdUrl(apiKey, imdbId, options) ==
    buildUrl(apiKey, << <<kI, Str(imdbId)>>,
                        <<kType, Destructure(options, "type")>>,
                        <<kPlot, Destructure(options, "plot")>> >>)

searchByTitleUrl(apiKey, query, options) ==
    buildUrl(apiKey, << <<kS, Str(query)>>,
                        <<kType, Destructure(options, "type")>>,
                        <<kPlot, Destructure(options, "plot")>>,
                        <<kPage, Destructure(options, "page")>> >>)

fetchByTitle(tr) == ClassifyDetail(executeRequest(tr))
fetchById(tr) == ClassifyDetail(executeRequest(tr))
searchByTitle(tr) == ClassifySearch(executeRequest(tr))

-----------------------------------------------------------------------------
(* The client's environment: callers and the injected transport *)

Absent == [t |-> "absent"]

\* The object literal with the listed properties, leaving out the absent ones.
MakeObject(pairs) ==
    LET present == {n \in 1..Len(pairs) : pairs[n][2] # Absent}
    IN Obj([k \in {pairs[n][1] : n \in present} |->
               pairs[CHOOSE n \in present : pairs[n][1] = k][2]])

sMovieNotFound ==
    <<"M", "o", "v", "i", "e", " ", "n", "o", "t", " ", "f", "o", "u", "n", "d", "!">>
sImdbId == <<"t", "t", "1", "2", "8", "5", "0", "1", "6">>
sUp == <<"U", "p">>
sMovie == <<"m", "o", "v", "i", "e">>
sFull == <<"f", "u", "l", "l">>
sDefaultKey == <<"d", "e", "f", "a", "u", "l", "t">>
sRefused ==
    <<"E", "C", "O", "N", "N", "R", "E", "F", "U", "S", "E", "D">>
sTimedOut ==
    <<"R", "e", "q", "u", "e", "s", "t", " ", "t", "i", "m", "e", "d", " ", "o", "u", "t">>
kMessage == <<"m", "e", "s", "s", "a", "g", "e">>

SearchEntry ==
    MakeObject(<< <<kTitle, Str(sUp)>>, <<kYear, Str(<<"2", "0", "0", "9">>)>>,
                  <<kImdbID, Str(sImdbId)>>, <<kType, Str(sMovie)>>,
                  <<<<"P", "o", "s", "t", "e", "r">>, Str(<<"-">>)>> >>)

ResponseValues == {Absent, Str(sTrue), Str(sFalse), Bool(TRUE)}
ErrorValues == {Absent, Str(sMovieNotFound), Str(<< >>), Num(1)}
ImdbIDValues == {Absent, Str(sImdbId), Num(1285016)}
SearchValues == {Absent, Arr(<<SearchEntry>>), Str(sUp)}

ObjectBodies ==
    { MakeObject(<< <<kResponse, r>>, <<kError, e>>, <<kImdbID, i>>, <<kSearch, s>> >>) :
        r \in ResponseValues, e \in ErrorValues, i \in ImdbIDValues, s \in SearchValues }

\* What response.json can hold: null, a value that is no object, an array, an object.
Bodies ==
    {Null, Undefined, Str(sTrue), Num(0), Bool(FALSE), Arr(<< >>)}
        \cup ObjectBodies

Statuses == {200, 399, 400, 503}

\* What requestUrl can throw: an Error, or any other value.
ThrownValues ==
    { ErrorObject(sRefused), ErrorObject(<< >>), Str(sTimedOut), Undefined,
      MakeObject(<< <<kMessage, Str(sRefused)>> >>) }

Operations == {"fetchByTitle", "fetchById", "searchByTitle"}

\* The option objects a caller of each operation can pass: each option is
\* absent, set, or (at most one of them) present with the value undefined.
OptionSets(o) ==
    LET keys == CASE o = "fetchByTitle" -> {"year", "type", "plot"}
                  [] o = "fetchById" -> {"type", "plot"}
                  [] o = "searchByTitle" -> {"type", "plot", "page"}
        val(k) == CASE k = "year" -> Num(2009)
                    [] k = "type" -> Str(sMovie)
                    [] k = "plot" -> Str(sFull)
                    [] k = "page" -> Num(12)
    IN UNION { { [k \in D |-> IF k \in U THEN Undefined ELSE val(k)] :
                   U \in {X \in SUBSET D : Cardinality(X) <= 1} } :
               D \in SUBSET keys }

UrlOf(o, a) ==
    CASE o = "fetchByTitle" -> fetchByTitleUrl(a.apiKey, a.term, a.options)
      [] o = "fetchById" -> fetchByIdUrl(a.apiKey, a.term, a.options)
      [] o = "searchByTitle" -> searchByTitleUrl(a.apiKey, a.term, a.options)

Settle(o, tr) ==
    CASE o = "fetchByTitle" -> fetchByTitle(tr)
      [] o = "fetchById" -> fetchById(tr)
      [] o = "searchByTitle" -> searchByTitle(tr)

NoCall == [apiKey |-> << >>, term |-> << >>, options |-> NoOptions]
NoUrl == [base |-> << >>, searchParams |-> << >>]
NoTransport == [kind |-> "none"]
Pending == [tag |-> "pending"]
NoData == Obj(NoOptions)

\* A caller invokes an operation: the URL is built and requestUrl is called once.
Invoke(o, term, options) ==
    /\ pc = "idle"
    /\ op' = o
    /\ args' = [apiKey |-> sDefaultKey, term |-> term, options |-> options]
    /\ url' = UrlOf(o, args')
    /\ requests' = 1
    /\ transport' = NoTransport
    /\ outcome' = Pending
    /\ pc' = "awaiting"
    /\ UNCHANGED <<templateVars, commandVars>>

\* requestUrl throws; the operation runs to its end.
TransportThrows(err) ==
    /\ pc = "awaiting"
    /\ transport' = [kind |-> "throw", err |-> err]
    /\ outcome' = Settle(op, transport')
    /\ pc' = "done"
    /\ UNCHANGED <<op, args, url, requests, templateVars, commandVars>>

\* requestUrl returns a response; the operation runs to its end.
TransportResponds(status, json) ==
    /\ pc = "awaiting"
    /\ transport' = [kind |-> "response", status |-> status, json |-> json]
    /\ outcome' = Settle(op, transport')
    /\ pc' = "done"
    /\ UNCHANGED <<op, args, url, requests, templateVars, commandVars>>

ClientInit ==
    /\ pc = "idle"
    /\ op = "none"
    /\ args = NoCall
    /\ url = NoUrl
    /\ requests = 0
    /\ transport = NoTransport
    /\ outcome = Pending
    /\ text = << >>
    /\ data = NoData
    /\ first = Pending
    /\ second = Pending
    /\ editor = << >>
    /\ inv = << >>
    /\ edits = 0

ClientNext ==
    \/ \E o \in Operations : \E options \in OptionSets(o) : Invoke(o, sUp, options)
    \/ \E err \in ThrownValues : TransportThrows(err)
    \/ \E status \in Statuses : \E json \in Bodies : TransportResponds(status, json)

SpecClient == ClientInit /\ [][ClientNext]_vars

-----------------------------------------------------------------------------
(* src/utils/template.ts *)

\* \w of PLACEHOLDER_REGEX: [A-Za-z0-9_]
WordChars ==
    { "A", "B", "C", "D", "E", "F", "G", "H", "I", "J", "K", "L", "M",
      "N", "O", "P", "Q", "R", "S", "T", "U", "V", "W", "X", "Y", "Z",
      "a", "b", "c", "d", "e", "f", "g", "h", "i", "j", "k", "l", "m",
      "n", "o", "p", "q", "r", "s", "t", "u", "v", "w", "x", "y", "z",
      "0", "1", "2", "3", "4", "5", "6", "7", "8", "9", "_" }

IsWordChar(c) == c \in WordChars

EXCLUDED_KEYS == {kResponse}

RECURSIVE WordRunEnd(_, _)
\* The index of the last character of the longest run of word characters that
\* starts at k (k - 1 when content[k] is no word character): the greedy \w+.
WordRunEnd(content, k) ==
    IF k <= Len(content) /\ IsWordChar(content[k])
    THEN WordRunEnd(content, k + 1)
    ELSE k - 1

\* PLACEHOLDER_REGEX tried at index i: the index of the closing "}" of the
\* match, or 0 when /\{=(\w+)=\}/ does not match there.
MatchEnd(content, i) ==
    IF i + 1 > Len(content) \/ content[i] # "{" \/ content[i + 1] # "="
    THEN 0
    ELSE LET k == WordRunEnd(content, i + 2)
         IN IF /\ k >= i + 2
               /\ k + 2 <= Len(content)
               /\ content[k + 1] = "="
               /\ content[k + 2] = "}"
            THEN k + 2
            ELSE 0

\* The replacer without the EXCLUDED_KEYS test.
ReplacerNoExclusion(match, key, d) ==
    IF ~HasProperty(d, key) THEN [text |-> match, counted |-> 0]
    ELSE LET value == Get(d, key)
         IN IF typeof(value) # "string" /\ typeof(value) # "number"
            THEN [text |-> match, counted |-> 0]
            ELSE [text |-> String(value), counted |-> 1]

\* The replacer with `replaced++` as its first statement.
ReplacerCountsAll(match, key, d) ==
    IF key \in EXCLUDED_KEYS THEN [text |-> match, counted |-> 1]
    ELSE IF ~HasProperty(d, key) THEN [text |-> match, counted |-> 1]
    ELSE LET value == Get(d, key)
         IN IF typeof(value) # "string" /\ typeof(value) # "number"
            THEN [text |-> match, counted |-> 1]
            ELSE [text |-> String(value), counted |-> 1]

\* The callback given to content.replace: the text that takes the place of the
\* match, and whether `replaced` was incremented.
Replacer(match, key, d) ==
    IF key \in EXCLUDED_KEYS THEN [text |-> match, counted |-> 0]
    ELSE IF ~HasProperty(d, key) THEN [text |-> match, counted |-> 0]
    ELSE LET value == Get(d, key)
         IN IF typeof(value) # "string" /\ typeof(value) # "number"
            THEN [text |-> match, counted |-> 0]
            ELSE [text |-> String(value), counted |-> 1]

RECURSIVE ReplaceFrom(_, _, _)
\* String.prototype.replace with the global regex, from index i on: matches are
\* taken left to right, the scan resumes after each match, and the text the
\* callback returns is not scanned again.
ReplaceFrom(content, i, d) ==
    IF i > Len(content) THEN [content |-> << >>, replaced |-> 0]
    ELSE LET j == MatchEnd(content, i)
         IN IF j = 0
            THEN LET rest == ReplaceFrom(content, i + 1, d)
                 IN [content |-> <<content[i]>> \o rest.content,
                     replaced |-> rest.replaced]
            ELSE LET r == Replacer(SubSeq(content, i, j),
                                   SubSeq(content, i + 2, j - 2), d)
                     rest == ReplaceFrom(content, j + 1, d)
                 IN [content |-> r.text \o rest.content,
                     replaced |-> r.counted + rest.replaced]

applyTemplate(content, d) == ReplaceFrom(content, 1, d)

-----------------------------------------------------------------------------
(* The template engine's inputs *)

MaxTokens == 5

tOpen == <<"{", "=">>
tClose == <<"=", "}">>

\* The pieces the generated texts are made of.
Tokens == {tOpen, tClose, kTitle, kResponse, <<" ">>}

RECURSIVE Flatten(_)
Flatten(ts) == IF ts = << >> THEN << >> ELSE Head(ts) \o Flatten(Tail(ts))

GeneratedTexts ==
    UNION { {Flatten(ts) : ts \in [1..n -> Tokens]} : n \in 0..MaxTokens }

\* Delimiters that are incomplete, doubled or wrap an inherited property name.
OddTexts ==
    { <<"{">> \o kTitle \o <<"}">>,
      tOpen \o kTitle \o <<"}">>,
      tOpen \o kTitle \o <<"=">> \o tClose,
      <<"{">> \o tOpen \o kTitle \o tClose \o <<"}">>,
      tOpen \o <<"t", "o", "S", "t", "r", "i", "n", "g">> \o tClose }

sGoodWillHunting ==
    <<"G", "o", "o", "d", " ", "W", "i", "l", "l", " ",
      "H", "u", "n", "t", "i", "n", "g">>
s1997 == <<"1", "9", "9", "7">>

Detail(title) ==
    MakeObject(<< <<kResponse, Str(sTrue)>>, <<kImdbID, Str(sImdbId)>>,
                  <<kTitle, title>> >>)

\* Detail results that differ in what they hold for Title.
DataRecords ==
    { Detail(Str(sUp)), Detail(Num(2009)), Detail(Null), Detail(Absent),
      Detail(Str(<< >>)), Detail(Str(kTitle)), Detail(Str(tOpen \o kTitle \o tClose)) }

\* The two template scenarios of the specification.
ScenarioText == kTitle \o <<":", " ">> \o tOpen \o kTitle \o tClose
                    \o <<" ", "(">> \o tOpen \o kYear \o tClose \o <<")">>
ScenarioData ==
    MakeObject(<< <<kResponse, Str(sTrue)>>, <<kImdbID, Str(sImdbId)>>,
                  <<kTitle, Str(sGoodWillHunting)>>, <<kYear, Str(s1997)>> >>)
Scenarios ==
    { <<ScenarioText, ScenarioData>>,
      <<tOpen \o kDirector \o tClose, Detail(Str(<<"X">>))>> }

\* applyTemplate(text, data)
Apply ==
    /\ first = Pending
    /\ first' = applyTemplate(text, data)
    /\ UNCHANGED <<text, data, second, clientVars, commandVars>>

\* applyTemplate on the content the first application returned, same data.
ApplyAgain ==
    /\ first # Pending /\ second = Pending
    /\ second' = applyTemplate(first.content, data)
    /\ UNCHANGED <<text, data, first, clientVars, commandVars>>

TemplateInit ==
    /\ \/ text \in GeneratedTexts \cup OddTexts /\ data \in DataRecords
       \/ \E sc \in Scenarios : text = sc[1] /\ data = sc[2]
    /\ first = Pending
    /\ second = Pending
    /\ pc = "idle"
    /\ op = "none"
    /\ args = NoCall
    /\ url = NoUrl
    /\ requests = 0
    /\ transport = NoTransport
    /\ outcome = Pending
    /\ editor = << >>
    /\ inv = << >>
    /\ edits = 0

TemplateNext == Apply \/ ApplyAgain

SpecTemplate == TemplateInit /\ [][TemplateNext]_vars

-----------------------------------------------------------------------------
(* src/commands/fetch-movie-data.ts and the command of the plugin *)

MaxInvocations == 2
MaxEdits == 2

NoActiveFileNotice ==
    <<"N", "o", " ", "a", "c", "t", "i", "v", "e", " ", "f", "i", "l", "e">>
FilenameFormatNotice ==
    <<"F", "i", "l", "e", "n", "a", "m", "e", " ", "m", "u", "s", "t", " ",
      "b", "e", " ", "i", "n", " ", "t", "h", "e", " ", "f", "o", "r", "m",
      "a", "t", ":", " ", "N", "a", "m", "e", " ", "(", "Y", "e", "a", "r", ")">>
NoPlaceholdersNotice ==
    <<"N", "o", " ", "{", "=", ".", ".", ".", "=", "}", " ", "p", "l", "a",
      "c", "e", "h", "o", "l", "d", "e", "r", "s", " ", "f", "o", "u", "n",
      "d", " ", "i", "n", " ", "n", "o", "t", "e">>
FetchedNoticePrefix ==
    <<"F", "e", "t", "c", "h", "e", "d", " ", "d", "a", "t", "a", " ",
      "f", "o", "r", " ", "\"">>
UnknownErrorNotice ==
    <<"U", "n", "k", "n", "o", "w", "n", " ", "e", "r", "r", "o", "r", " ",
      "f", "e", "t", "c", "h", "i", "n", "g", " ", "m", "o", "v", "i", "e",
      " ", "d", "a", "t", "a">>

IsDigit(c) == c \in {"0", "1", "2", "3", "4", "5", "6", "7", "8", "9"}
IsSpace(c) == c \in {" ", "\t"}

DigitValue(c) ==
    CASE c = "0" -> 0 [] c = "1" -> 1 [] c = "2" -> 2 [] c = "3" -> 3 [] c = "4" -> 4
      [] c = "5" -> 5 [] c = "6" -> 6 [] c = "7" -> 7 [] c = "8" -> 8 [] c = "9" -> 9

RECURSIVE parseInt(_)
\* parseInt(digits, 10) for a string of digits.
parseInt(digits) ==
    IF digits = << >> THEN 0
    ELSE 10 * parseInt(SubSeq(digits, 1, Len(digits) - 1))
             + DigitValue(digits[Len(digits)])

\* basename.match(FILENAME_PATTERN) for /^(.+)\s+\((\d{4})\)$/: the greedy (.+)
\* leaves one white-space character to \s+.
FilenameMatches(b) ==
    LET n == Len(b)
    IN /\ n >= 8
       /\ b[n] = ")"
       /\ \A k \in (n - 4)..(n - 1) : IsDigit(b[k])
       /\ b[n - 5] = "("
       /\ IsSpace(b[n - 6])

FilenameTitle(b) == SubSeq(b, 1, Len(b) - 7)
FilenameYear(b) == parseInt(SubSeq(b, Len(b) - 4, Len(b) - 1))

\* view.file: null, or a file with one of these basenames.
NoFile == [t |-> "null"]
Views ==
    { NoFile,
      Str(<<"U", "p", "(", "2", "0", "0", "9", ")">>),
      Str(<<"U", "p", " ", "(", "2", "0", "0", "9", ")">>) }

\* The notes the editor can hold when the plugin is loaded.
InitialNotes == { sUp, tOpen \o kTitle \o tClose }

\* What the user types at the end of the note.
EditPieces == { <<" ">> \o tOpen \o kTitle \o tClose }

\* What requestUrl does for a call made by the command.
CommandTransports ==
    { [kind |-> "throw", err |-> ErrorObject(sRefused)],
      [kind |-> "response", status |-> 200, json |-> Detail(Str(sUp))],
      [kind |-> "response", status |-> 200, json |-> Detail(Absent)] }

Invocation(position, u, content, notice) ==
    [ pc |-> position,        \* "awaiting" the fetch, or "returned"
      url |-> u,              \* the URL of its fetchByTitle call
      startContent |-> content,   \* the editor's content when it was invoked
      fetch |-> Pending,      \* how fetchByTitle ended
      before |-> << >>,       \* the editor's content when the fetch ended
      after |-> << >>,        \* the editor's content when fetchMovieData returned
      notice |-> notice ]

\* fetchMovieData up to `await fetchByTitle(...)`.
StartFetchMovieData(file) ==
    IF file = NoFile
    THEN Invocation("returned", NoUrl, editor, NoActiveFileNotice)
    ELSE IF ~FilenameMatches(file.v)
    THEN Invocation("returned", NoUrl, editor, FilenameFormatNotice)
    ELSE Invocation("awaiting",
                    fetchByTitleUrl(sDefaultKey, FilenameTitle(file.v),
                                    [year |-> Num(FilenameYear(file.v))]),
                    editor, << >>)

\* The command's editorCheckCallback with checking = false and a markdown view.
Command(file) ==
    /\ Len(inv) < MaxInvocations
    /\ inv' = Append(inv, StartFetchMovieData(file))
    /\ UNCHANGED <<editor, edits, clientVars, templateVars>>

\* The user edits the note.
UserEdit(piece) ==
    /\ edits < MaxEdits
    /\ editor' = editor \o piece
    /\ edits' = edits + 1
    /\ UNCHANGED <<inv, clientVars, templateVars>>

\* editor.getValue() read when invocation p was started, not when it resumes.
EditorGetValueAtStart(p) == inv[p].startContent

\* editor.getValue() in invocation p, which runs after the await.
EditorGetValue(p) == editor

\* fetchMovieData from the point where fetchByTitle settles: the editor's new
\* content and the notice shown.
ResumeFetchMovieData(p, result) ==
    IF result.tag = "raise"
    THEN [ content |-> editor,
           notice |-> IF result.error.name = "OmdbError"
                      THEN result.error.message ELSE UnknownErrorNotice ]
    ELSE LET r == applyTemplate(EditorGetValue(p), result.body)
         IN IF r.replaced = 0
            THEN [content |-> editor, notice |-> NoPlaceholdersNotice]
            ELSE [ content |-> r.content,
                   notice |-> FetchedNoticePrefix
                                  \o String(Get(result.body, kTitle)) \o <<"\"">> ]

\* The fetch of invocation p settles and fetchMovieData runs to its end.
FetchSettles(p, tr) ==
    /\ p \in DOMAIN inv
    /\ inv[p].pc = "awaiting"
    /\ LET result == fetchByTitle(tr)
           step == ResumeFetchMovieData(p, result)
       IN /\ editor' = step.content
          /\ inv' = [inv EXCEPT ![p] =
                        [@ EXCEPT !.pc = "returned", !.fetch = result,
                                  !.before = editor, !.after = step.content,
                                  !.notice = step.notice]]
    /\ UNCHANGED <<edits, clientVars, templateVars>>

CommandInit ==
    /\ editor \in InitialNotes
    /\ inv = << >>
    /\ edits = 0
    /\ pc = "idle"
    /\ op = "none"
    /\ args = NoCall
    /\ url = NoUrl
    /\ requests = 0
    /\ transport = NoTransport
    /\ outcome = Pending
    /\ text = << >>
    /\ data = NoData
    /\ first = Pending
    /\ second = Pending

CommandNext ==
    \/ \E file \in Views : Command(file)
    \/ \E piece \in EditPieces : UserEdit(piece)
    \/ \E p \in 1..MaxInvocations : \E tr \in CommandTransports : FetchSettles(p, tr)

SpecCommand == CommandInit /\ [][CommandNext]_vars

-----------------------------------------------------------------------------
(* Properties of the client *)

DetailOperations == {"fetchByTitle", "fetchById"}
Responded == pc = "done" /\ transport.kind = "response"

\* The shapes, stated on the body itself.
FailureShaped(b) ==
    /\ b.t = "object"
    /\ kResponse \in DOMAIN b.v /\ b.v[kResponse] = Str(sFalse)
    /\ kError \in DOMAIN b.v /\ b.v[kError].t = "string"

DetailShaped(b) ==
    /\ b.t = "object"
    /\ kResponse \in DOMAIN b.v /\ b.v[kResponse] = Str(sTrue)
    /\ kImdbID \in DOMAIN b.v /\ b.v[kImdbID].t = "string"

SearchShaped(b) ==
    /\ b.t = "object"
    /\ kResponse \in DOMAIN b.v /\ b.v[kResponse] = Str(sTrue)
    /\ kSearch \in DOMAIN b.v /\ b.v[kSearch].t = "array"

SuccessShaped(o, b) == IF o \in DetailOperations THEN DetailShaped(b) ELSE SearchShaped(b)

RaisedKind(k) == outcome.tag = "raise" /\ outcome.error.kind = k

\* C1: whatever the transport does, a finished call of any of the three
\* operations has either returned a body that has the operation's success shape
\* or raised one OmdbError whose kind is network, http, api or parse.
C1_ValidatedOrTypedError ==
    pc = "done" =>
        \/ outcome.tag = "return" /\ SuccessShaped(op, outcome.body)
        \/ /\ outcome.tag = "raise"
           /\ outcome.error.name = "OmdbError"
           /\ outcome.error.kind \in OmdbErrorKind

\* A detail call answered 200 with an object that is neither failure-shaped nor
\* detail-shaped: the call ended with a parse error.
C1_Witness ==
    /\ Responded /\ op = "fetchByTitle" /\ transport.status = 200
    /\ transport.json.t = "object"
    /\ ~FailureShaped(transport.json) /\ ~DetailShaped(transport.json)
    /\ RaisedKind("parse")

\* C2: a response with status >= 400 makes every operation raise kind http with
\* httpStatus equal to the status, whatever the body is.
C2_HttpFirst ==
    (Responded /\ transport.status >= 400) =>
        /\ RaisedKind("http")
        /\ outcome.error.httpStatus = Num(transport.status)

\* Status 503 with a body that is a valid success shape of the operation.
C2_Witness ==
    /\ Responded /\ transport.status = 503
    /\ SuccessShaped(op, transport.json)
    /\ RaisedKind("http")

FailureText(err) ==
    CASE err.t = "Error" -> err.v
      [] err.t = "string" -> err.v
      [] err.t = "object" /\ kMessage \in DOMAIN err.v -> err.v[kMessage].v
      [] OTHER -> String(err)

Threw == pc = "done" /\ transport.kind = "throw"

\* C4 as stated: for every thrown value the network error's message is the
\* failure text of that value, and the transport was called once.
C4_Original ==
    Threw =>
        /\ RaisedKind("network")
        /\ outcome.error.message = FailureText(transport.err)
        /\ requests = 1

\* C4 (amended): when the transport throws, the operation raises kind network
\* and the transport was called once; the message is the thrown value's message
\* when that value is an Error instance and the fixed text "Network error" for
\* any other thrown value.
C4_NetworkMessage ==
    Threw =>
        /\ RaisedKind("network")
        /\ (transport.err.t = "Error" => outcome.error.message = transport.err.v)
        /\ (transport.err.t # "Error" => outcome.error.message = NetworkErrorMessage)
        /\ requests = 1

\* The transport threw an Error whose message is "ECONNREFUSED".
C4_Witness ==
    /\ Threw /\ transport.err = ErrorObject(sRefused)
    /\ RaisedKind("network") /\ outcome.error.message = sRefused

Count(q, key) == Cardinality({n \in 1..Len(q) : q[n][1] = key})
ValueOf(q, key) == q[CHOOSE n \in 1..Len(q) : q[n][1] = key][2]
Holds(q, key, value) == Count(q, key) = 1 /\ ValueOf(q, key) = value

PrimaryKey(o) ==
    CASE o = "fetchByTitle" -> kT [] o = "fetchById" -> kI [] o = "searchByTitle" -> kS

OptionNames(o) ==
    CASE o = "fetchByTitle" -> {"year", "type", "plot"}
      [] o = "fetchById" -> {"type", "plot"}
      [] o = "searchByTitle" -> {"type", "plot", "page"}

QueryKey(name) ==
    CASE name = "year" -> kY [] name = "type" -> kType
      [] name = "plot" -> kPlot [] name = "page" -> kPage

\* The text expected in the query for the value the callers give each option.
ExpectedText(name) ==
    CASE name = "year" -> <<"2", "0", "0", "9">>
      [] name = "type" -> <<"m", "o", "v", "i", "e">>
      [] name = "plot" -> <<"f", "u", "l", "l">>
      [] name = "page" -> <<"1", "2">>

OptionDefined(name) ==
    name \in DOMAIN args.options /\ args.options[name] # Undefined

\* C8: the query of the built URL holds apikey, r=json and the operation's
\* primary key, holds an option's key exactly when the option is defined (with
\* the string form of its value), and holds no empty or "undefined" value.
C8_QueryOmitsUndefined ==
    pc # "idle" =>
        LET q == url.searchParams
        IN /\ Holds(q, kApikey, args.apiKey)
           /\ Holds(q, kR, sJson)
           /\ Holds(q, PrimaryKey(op), args.term)
           /\ \A name \in OptionNames(op) :
                  IF OptionDefined(name)
                  THEN Holds(q, QueryKey(name), ExpectedText(name))
                  ELSE Count(q, QueryKey(name)) = 0
           /\ \A n \in 1..Len(q) :
                  /\ q[n][2] \notin {<< >>, sUndefined}
                  /\ q[n][1] \in {kApikey, kR, PrimaryKey(op)}
                                     \cup {QueryKey(name) : name \in OptionNames(op)}

\* fetchByTitle with year set, type present but undefined, plot absent.
C8_Witness ==
    /\ pc = "awaiting" /\ op = "fetchByTitle"
    /\ DOMAIN args.options = {"year", "type"}
    /\ args.options["type"] = Undefined
    /\ Len(url.searchParams) = 4

\* C9: every raised error carries httpStatus iff its kind is http and apiMessage
\* iff its kind is api.
C9_FieldsMatchKind ==
    (pc = "done" /\ outcome.tag = "raise") =>
        /\ outcome.error.kind \in OmdbErrorKind
        /\ (outcome.error.httpStatus # Undefined) <=> (outcome.error.kind = "http")
        /\ (outcome.error.apiMessage # Undefined) <=> (outcome.error.kind = "api")

\* An api error whose upstream message is the empty string.
C9_Witness ==
    /\ pc = "done" /\ RaisedKind("api")
    /\ outcome.error.apiMessage = Str(<< >>)
    /\ outcome.error.httpStatus = Undefined

-----------------------------------------------------------------------------
(* Properties of the template engine *)

\* Where a "{=" starts and where a "=}" ends in txt.
Opens(txt) == {i \in 1..(Len(txt) - 1) : txt[i] = "{" /\ txt[i + 1] = "="}
Closes(txt) == {j \in 2..Len(txt) : txt[j - 1] = "=" /\ txt[j] = "}"}

\* The key of the placeholder that spans txt[e[1]..e[2]].
KeyOf(txt, e) == SubSeq(txt, e[1] + 2, e[2] - 2)

\* A key whose placeholders are to be replaced: not Response, a property of the
\* data record, holding a string or a number.
Eligible(d, key) ==
    /\ key # kResponse
    /\ key \in DOMAIN d.v
    /\ d.v[key].t \in {"string", "number"}

\* The occurrences <<i, j>> of placeholders of eligible keys: txt[i..j] is "{=",
\* one or more word characters, "=}".
EligiblePlaceholders(txt, d) ==
    { e \in Opens(txt) \X Closes(txt) :
        /\ e[1] + 4 <= e[2]
        /\ \A k \in (e[1] + 2)..(e[2] - 2) : txt[k] \in WordChars
        /\ Eligible(d, KeyOf(txt, e)) }

\* The string form of the value a placeholder of an eligible key stands for.
Inserted(txt, d, e) ==
    LET value == d.v[KeyOf(txt, e)]
    IN IF value.t = "number" THEN NumberToString(value.v) ELSE value.v

RECURSIVE ExpectedFrom(_, _, _, _)
\* Position by position: an eligible placeholder gives its value where it starts
\* and nothing for its other characters; every other character gives itself.
ExpectedFrom(txt, d, E, i) ==
    IF i > Len(txt) THEN << >>
    ELSE (IF \E e \in E : e[1] = i
          THEN Inserted(txt, d, CHOOSE e \in E : e[1] = i)
          ELSE IF \E e \in E : e[1] < i /\ i <= e[2] THEN << >>
          ELSE <<txt[i]>>)
         \o ExpectedFrom(txt, d, E, i + 1)

\* C6: applyTemplate replaces exactly the placeholders whose key is not Response,
\* is a property of data and holds a string or a number, by the value's string
\* form; everything else is copied in order; the count is the number of
\* replaced occurrences, so a text with none comes back unchanged with count 0.
C6_ReplacesExactlyEligible ==
    first # Pending =>
        LET E == EligiblePlaceholders(text, data)
        IN /\ first.content = ExpectedFrom(text, data, E, 1)
           /\ first.replaced = Cardinality(E)
           /\ (E = {} => first.content = text /\ first.replaced = 0)

\* "Title: {=Title=} ({=Year=})" became "Title: Good Will Hunting (1997)".
C6_Witness ==
    /\ first # Pending
    /\ text = ScenarioText /\ data = ScenarioData
    /\ first.content = kTitle \o <<":", " ">> \o sGoodWillHunting
                           \o <<" ", "(">> \o s1997 \o <<")">>
    /\ first.replaced = 2

\* C7 as stated: for every text and data record the second application returns
\* the content of the first and a count of 0.
C7_Original ==
    second # Pending => second.content = first.content /\ second.replaced = 0

\* Every value the first application inserts is non-empty and holds none of the
\* delimiter characters.
InsertedValuesPlain ==
    \A e \in EligiblePlaceholders(text, data) :
        LET value == Inserted(text, data, e)
        IN /\ value # << >>
           /\ \A n \in 1..Len(value) : value[n] \notin {"{", "=", "}"}

\* No replaced placeholder stands, with nothing but word characters and other
\* replaced placeholders around it, between a "{=" and a "=}" of the text.
NoEnclosedReplacement ==
    LET E == EligiblePlaceholders(text, data)
        Within(e, p, q) == p + 2 <= e[1] /\ e[2] <= q - 2
    IN ~ \E p \in Opens(text), q \in Closes(text) :
           /\ p + 4 <= q
           /\ \E e \in E : Within(e, p, q)
           /\ \A k \in (p + 2)..(q - 2) :
                  \/ IsWordChar(text[k])
                  \/ \E e \in E : Within(e, p, q) /\ e[1] <= k /\ k <= e[2]

\* C7 (amended): the second application with the same data returns the content
\* of the first and a count of 0 when every inserted value is non-empty and free
\* of "{", "=" and "}", and no replaced placeholder is enclosed, together with
\* only word characters and other replaced placeholders, by "{=" and "=}".
C7_IdempotentOnPlainValues ==
    (second # Pending /\ InsertedValuesPlain /\ NoEnclosedReplacement) =>
        second.content = first.content /\ second.replaced = 0

\* The second application of the scenario: two values were inserted by the
\* first application and none of them is matched again.
C7_Witness ==
    /\ second # Pending
    /\ text = ScenarioText /\ data = ScenarioData
    /\ InsertedValuesPlain /\ NoEnclosedReplacement
    /\ first.replaced = 2
    /\ second = [content |-> first.content, replaced |-> 0]

-----------------------------------------------------------------------------
(* Properties of the command *)

\* C10: whenever an invocation of fetchMovieData resumes, with any number of
\* other invocations pending and any edits made meanwhile, it writes
\* applyTemplate of the content the editor holds at that moment, and only when
\* the fetch succeeded and at least one placeholder was replaced; on an error
\* or a count of 0 it leaves the content as it is.
C10_WritesCurrentContent ==
    \A p \in DOMAIN inv :
        (inv[p].pc = "returned" /\ inv[p].fetch # Pending) =>
            IF inv[p].fetch.tag = "return"
               /\ EligiblePlaceholders(inv[p].before, inv[p].fetch.body) # {}
            THEN inv[p].after = ExpectedFrom(inv[p].before, inv[p].fetch.body,
                        EligiblePlaceholders(inv[p].before, inv[p].fetch.body), 1)
            ELSE inv[p].after = inv[p].before

\* Two invocations were pending at once; the user typed a placeholder after the
\* second was started, and the second, resuming last, replaced that one too.
C10_Witness ==
    /\ Len(inv) = 2
    /\ inv[1].pc = "returned" /\ inv[2].pc = "returned"
    /\ inv[1].fetch # Pending /\ inv[2].fetch # Pending
    /\ inv[2].fetch.tag = "return"
    /\ inv[2].before # inv[2].startContent
    /\ inv[2].after # inv[2].before
    /\ editor = inv[2].after

====
